---- MODULE Spec2Model ----
(***************************************************************************)
(* PixelatedTextEffect (script.js): the pointer-driven state of the        *)
(* effect, its frame loop, its resize handling, its teardown, and the      *)
(* applyPixelatedTextTo helper.                                            *)
(*                                                                         *)
(* JavaScript runs every handler to completion on one thread, so each      *)
(* handler, frame callback and public call is one atomic action.           *)
(*                                                                         *)
(* Numbers.  Normalized coordinates are JavaScript doubles.  They are      *)
(* modelled in fixed point: the integer n stands for n / Scale.  Products  *)
(* with the easing factor are rounded to the nearest representable value,  *)
(* as a floating-point multiply-add is.                                    *)
(*                                                                         *)
(* Objects.  mousePosition, targetMousePosition and prevPosition are       *)
(* references to {x, y} objects.  The heap maps object ids to their        *)
(* contents, so that copying ({...obj}), re-pointing a field and writing   *)
(* a field in place are different things, as they are in the source.       *)
(***************************************************************************)
EXTENDS Integers, Naturals, Sequences, FiniteSets, TLC

VARIABLES
  \* ---- host environment (browser) ----
  viewport,        \* [w, h]: window.innerWidth, window.innerHeight
  parentOf,        \* DOM: node -> its parent, "detached" or "absent" (not created)
  elPosition,      \* computed CSS position of the element the selector matches
  textContent,     \* el.textContent, a sequence of characters
  listeners,       \* registered event listeners: set of [target, type, fn]
  pendingFrames,   \* requestAnimationFrame callbacks not yet run or cancelled
  frameSeq,        \* last handle requestAnimationFrame returned
  warnings,        \* number of console.warn calls
  \* ---- the effect instance ----
  constructed,     \* an instance exists
  container,       \* this.container
  text,            \* this.text
  easeFactor,      \* this.easeFactor, a fraction [num, den]
  heap,            \* object id -> [x, y] or Free
  mouseRef,        \* this.mousePosition (object id)
  targetRef,       \* this.targetMousePosition (object id)
  prevRef,         \* this.prevPosition (object id)
  camera,          \* this.camera: bounds and the projection computed from them
  uniforms,        \* this.shaderUniforms: u_mouse, u_prevMouse, u_texture
  renderer,        \* this.renderer: [w, h, disposed]
  animationFrame,  \* this.animationFrame
  textures,        \* every CanvasTexture created so far, in creation order
  released,        \* ids of textures on which dispose() was called
  draws,           \* number of renderer.render calls
  drawn,           \* the uniform values the latest renderer.render call read
  \* ---- fonts and GPU ----
  fontsReady,      \* document.fonts has finished loading the custom font
  frag,            \* the fragment the fragment shader last shaded
  \* ---- observation ----
  returned,        \* what the last applyPixelatedTextTo call returned
  lastOp,          \* the last operation that ran, with its input
  movePrev,        \* the target in force just before the latest move event
  resizes          \* number of resize events dispatched

vars == << viewport, parentOf, elPosition, textContent, listeners, pendingFrames,
           frameSeq, warnings, constructed, container, text, easeFactor, heap,
           mouseRef, targetRef, prevRef, camera, uniforms, renderer,
           animationFrame, textures, released, draws, drawn, fontsReady, frag,
           returned, lastOp, movePrev, resizes >>

pointerVars == << easeFactor, heap, mouseRef, targetRef, prevRef >>
renderVars == << camera, uniforms, renderer, textures, released, draws, drawn >>
envVars == << fontsReady, frag >>

----------------------------------------------------------------------------
\* Bounds of the model.

\* Resolution of the fixed-point coordinates: n stands for n / Scale.
Scale == 1000
\* Frame callbacks run at most this many times under Spec.
MaxTicks == 1
\* Frame callbacks run at most this many times under PointerSpec.
PointerTicks == 2
\* Resize events dispatched at most this many times.
MaxResizes == 1
\* console.warn calls at most this many times.
MaxWarnings == 1

----------------------------------------------------------------------------
\* Values.

Null == "null"
Free == "free"

Point(px, py) == [x |-> px, y |-> py]

\* 0.5 in fixed point (script.js:46-48).
Half == Scale \div 2

ObjIds == 1..4

Nodes == {"el", "host", "overlay", "canvas"}

\* The viewports the window can take.
Viewports == { [w |-> 800, h |-> 600], [w |-> 500, h |-> 500] }

\* Bounding boxes getBoundingClientRect can report for the container.
Rects == { [left |-> 100, top |-> 50, width |-> 500, height |-> 250] }

\* Pointer positions inside a bounding box, in tenths of its width and height:
\* interior points and a corner.
InsideTenths == { <<2, 3>>, <<5, 5>>, <<0, 10>> }

\* Where a mouseleave event reports the pointer: just outside the box.
OutsideTenths == { <<-1, 5>> }

\* The mouse events the host can deliver for a box at the given positions.
EventsIn(rect, tenths) ==
  { [clientX |-> rect.left + (rect.width * t[1]) \div 10,
     clientY |-> rect.top + (rect.height * t[2]) \div 10] : t \in tenths }

Selectors == {"#title", "#missing"}

TextContents == { <<" ", "H", "I", " ">>, <<"H", "I">> }

\* options objects given to applyPixelatedTextTo: the keys they carry.
OptionSets ==
  { [hasContainer |-> FALSE, container |-> Null, hasText |-> FALSE, text |-> <<>>],
    [hasContainer |-> FALSE, container |-> Null, hasText |-> TRUE, text |-> <<"Y", "O">>],
    [hasContainer |-> TRUE, container |-> "host", hasText |-> FALSE, text |-> <<>>] }

----------------------------------------------------------------------------
\* Pure helpers.

\* n / d rounded to the nearest integer, d > 0.
RoundDiv(n, d) ==
  IF n >= 0 THEN (2 * n + d) \div (2 * d) ELSE -((2 * (-n) + d) \div (2 * d))

\* (event.clientX - rect.left) / rect.width, in fixed point.
NormX(event, rect) == ((event.clientX - rect.left) * Scale) \div rect.width

\* event.clientY / rect.height: the box's offset in the page is forgotten.
NormYOfPage(event, rect) == (event.clientY * Scale) \div rect.height

\* (event.clientY - rect.top) / rect.height, in fixed point.
NormY(event, rect) == ((event.clientY - rect.top) * Scale) \div rect.height

Normalized(event, rect) == Point(NormX(event, rect), NormY(event, rect))

\* c += (t - c) * easeFactor, for one axis.
\* An easing step taken away from the target.
EasedAway(c, t, ease) == c - RoundDiv((t - c) * ease.num, ease.den)

Eased(c, t, ease) == c + RoundDiv((t - c) * ease.num, ease.den)

\* String.prototype.trim on a sequence of characters.
RECURSIVE TrimLeft(_)
TrimLeft(s) == IF s # <<>> /\ Head(s) = " " THEN TrimLeft(Tail(s)) ELSE s

RECURSIVE TrimRight(_)
TrimRight(s) ==
  IF s # <<>> /\ s[Len(s)] = " " THEN TrimRight(SubSeq(s, 1, Len(s) - 1)) ELSE s

Trim(s) == TrimRight(TrimLeft(s))

\* document.querySelector: the page holds one element, matched by "#title".
querySelector(selector) == IF selector = "#title" THEN "el" ELSE Null

\* The identity of a method after this.m = this.m.bind(this) in the constructor.
Bound(name) == << "bound", name >>

\* The smallest object id that none of the three fields refers to.
FreshId(m, t, p) == CHOOSE i \in ObjIds : i \notin {m, t, p} /\
                      \A j \in ObjIds : j \notin {m, t, p} => i <= j

\* Object ids have no meaning of their own: after a handler, renumber the
\* objects in the order mousePosition, targetMousePosition, prevPosition
\* and drop the unreachable ones.  Aliasing between the fields is preserved.
CanonTarget(m, t) == IF t = m THEN 1 ELSE 2
CanonPrev(m, t, p) ==
  IF p = m THEN 1 ELSE IF p = t THEN CanonTarget(m, t) ELSE CanonTarget(m, t) + 1
CanonHeap(h, m, t, p) ==
  [i \in ObjIds |->
     IF i = 1 THEN h[m]
     ELSE IF i = CanonTarget(m, t) THEN h[t]
     ELSE IF i = CanonPrev(m, t, p) THEN h[p]
     ELSE Free]

\* The contents of the three pointer objects.
Current == heap[mouseRef]
Target == heap[targetRef]
Previous == heap[prevRef]

Fraction(n, d) == [num |-> n, den |-> d]
EaseInitial == Fraction(20, 1000)
EaseMove == Fraction(35, 1000)
EaseEnter == Fraction(10, 1000)
EaseLeave == Fraction(10, 1000)

\* Textures created and not disposed.
LiveTextures == (1..Len(textures)) \ released


----------------------------------------------------------------------------
\* Configuration defaults of the constructor (script.js:34-37).

DefaultText == << "z", "a", "y", "n", "o" >>
DefaultFont == "Rinter"
DefaultColor == "#ffffff"
DefaultFontWeight == "100"

\* A canvas of the window's size, not doubled.
createTextTextureAtWindowSize(vp, txt) ==
  [ width |-> vp.w, height |-> vp.h, text |-> txt,
    font |-> DefaultFont, fontWeight |-> DefaultFontWeight, color |-> DefaultColor,
    fallback |-> ~fontsReady ]

\* createTextTexture: a fresh canvas of twice the window size holding the
\* text.  The glyphs are drawn with the fallback font when the custom font
\* has not loaded yet.
createTextTexture(vp, txt) ==
  [ width |-> vp.w * 2, height |-> vp.h * 2, text |-> txt,
    font |-> DefaultFont, fontWeight |-> DefaultFontWeight, color |-> DefaultColor,
    fallback |-> ~fontsReady ]

\* The orthographic bounds for a viewport: top = 1 / aspectRatio = h / w.
CameraBounds(vp) ==
  [ left |-> -1, right |-> 1, top |-> Fraction(vp.h, vp.w),
    bottom |-> Fraction(-vp.h, vp.w) ]

\* new THREE.OrthographicCamera(...) in init: the bounds, and the projection
\* the constructor derives from them.  calls counts the
\* updateProjectionMatrix calls script.js itself makes.
NewCamera(vp) ==
  [ bounds |-> CameraBounds(vp), projection |-> CameraBounds(vp), calls |-> 0 ]

\* camera.updateProjectionMatrix(): recompute the projection from the bounds.
updateProjectionMatrix(cam) ==
  [ cam EXCEPT !.projection = cam.bounds, !.calls = cam.calls + 1 ]

\* The easing step of animate on the heap: mousePosition moves toward
\* targetMousePosition by easeFactor, in place.
AnimatedHeap(h, m, t, ease) ==
  [ h EXCEPT ![m] = Point(Eased(h[m].x, h[t].x, ease), Eased(h[m].y, h[t].y, ease)) ]

\* Uniform writes that pass on the last frame's mouse uniform as the
\* previous-mouse uniform.
AnimatedUniformsLastFrame(u, h, m, p) ==
  [ u EXCEPT !.u_mouse = Point(h[m].x, Scale - h[m].y),
             !.u_prevMouse = u.u_mouse ]

\* Uniform writes that forget to flip the y axis.
AnimatedUniformsUnflipped(u, h, m, p) ==
  [ u EXCEPT !.u_mouse = h[m], !.u_prevMouse = h[p] ]

\* The uniform writes of animate: (x, 1 - y) of the current and of the
\* previous position.
AnimatedUniforms(u, h, m, p) ==
  [ u EXCEPT !.u_mouse = Point(h[m].x, Scale - h[m].y),
             !.u_prevMouse = Point(h[p].x, Scale - h[p].y) ]

\* The four listeners addEventListeners registers for a container.
RegisteredListeners(cont) ==
  { [target |-> cont, type |-> "mousemove", fn |-> Bound("handleMouseMove")],
    [target |-> cont, type |-> "mouseenter", fn |-> Bound("handleMouseEnter")],
    [target |-> cont, type |-> "mouseleave", fn |-> Bound("handleMouseLeave")],
    [target |-> "window", type |-> "resize", fn |-> Bound("onWindowResize")] }

\* A destroy that forgets the window's resize listener.
RemovedListenersButResize(cont) ==
  { [target |-> cont, type |-> "mousemove", fn |-> Bound("handleMouseMove")],
    [target |-> cont, type |-> "mouseenter", fn |-> Bound("handleMouseEnter")],
    [target |-> cont, type |-> "mouseleave", fn |-> Bound("handleMouseLeave")] }

\* The listeners destroy passes to removeEventListener.
RemovedListeners(cont) ==
  { [target |-> cont, type |-> "mousemove", fn |-> Bound("handleMouseMove")],
    [target |-> cont, type |-> "mouseenter", fn |-> Bound("handleMouseEnter")],
    [target |-> cont, type |-> "mouseleave", fn |-> Bound("handleMouseLeave")],
    [target |-> "window", type |-> "resize", fn |-> Bound("onWindowResize")] }

\* An animate that does not schedule its next frame.
requestNothing(pending, handle) == pending

\* requestAnimationFrame(callback): the callback is pending under a new handle.
requestAnimationFrame(pending, handle) == pending \cup {handle}

\* cancelAnimationFrame that cancels nothing.
cancelNothing(pending, handle) == pending

\* cancelAnimationFrame(handle): the callback with this handle will not run.
cancelAnimationFrame(pending, handle) == pending \ {handle}

\* The object literal { container: overlay, text, ...options } that
\* applyPixelatedTextTo passes to the constructor: later keys win.
MergedConfig(overlay, txt, options) ==
  [ container |-> IF options.hasContainer THEN options.container ELSE overlay,
    text |-> IF options.hasText THEN options.text ELSE txt ]

NoPoint == Point(0, 0)

\* No fragment has been shaded.
NoFrag ==
  [ shaded |-> FALSE, uv |-> NoPoint, d |-> 0, gridUV |-> NoPoint,
    center |-> NoPoint, strength |-> [num |-> 0, den |-> 1] ]

NoOp(name) == [op |-> name, handled |-> FALSE, at |-> NoPoint]
Op(name, pt) == [op |-> name, handled |-> TRUE, at |-> pt]

----------------------------------------------------------------------------
\* The state before any effect is constructed.

Init ==
  /\ viewport \in Viewports
  /\ parentOf = [n \in Nodes |-> IF n \in {"el", "host"} THEN "body" ELSE "absent"]
  /\ elPosition \in {"static", "absolute"}
  /\ textContent \in TextContents
  /\ listeners = {}
  /\ pendingFrames = {}
  /\ frameSeq = 0
  /\ warnings = 0
  /\ constructed = FALSE
  /\ container = Null
  /\ text = <<>>
  /\ easeFactor = Fraction(0, 1)
  /\ heap = [i \in ObjIds |-> Free]
  /\ mouseRef = 1
  /\ targetRef = 2
  /\ prevRef = 3
  /\ camera = [bounds |-> CameraBounds([w |-> 1, h |-> 1]),
               projection |-> CameraBounds([w |-> 1, h |-> 1]), calls |-> 0]
  /\ uniforms = [u_mouse |-> NoPoint, u_prevMouse |-> NoPoint, u_texture |-> 0]
  /\ renderer = [w |-> 0, h |-> 0, disposed |-> FALSE]
  /\ animationFrame = 0
  /\ textures = <<>>
  /\ released = {}
  /\ draws = 0
  /\ drawn = [u_mouse |-> NoPoint, u_prevMouse |-> NoPoint, u_texture |-> 0]
  /\ fontsReady \in BOOLEAN
  /\ frag = NoFrag
  /\ returned = "none"
  /\ lastOp = NoOp("load")
  /\ movePrev = [set |-> FALSE, at |-> NoPoint]
  /\ resizes = 0

----------------------------------------------------------------------------
\* constructor + init (script.js:32-57, 137-244) for the container cont and
\* the text txt, on the DOM dom.  init ends by running animate() once,
\* synchronously, and then registering the listeners.
Construct(cont, txt, dom) ==
  LET h0 == [i \in ObjIds |-> IF i \in {1, 2, 3} THEN Point(Half, Half) ELSE Free]
      tex == createTextTexture(viewport, txt)
      u0 == [u_mouse |-> NoPoint, u_prevMouse |-> NoPoint,
             u_texture |-> Len(textures) + 1]
      h1 == AnimatedHeap(h0, 1, 2, EaseInitial)
  IN /\ constructed' = TRUE
     /\ container' = cont
     /\ text' = txt
     /\ easeFactor' = EaseInitial
     /\ mouseRef' = 1
     /\ targetRef' = 2
     /\ prevRef' = 3
     /\ camera' = NewCamera(viewport)
     /\ textures' = Append(textures, tex)
     /\ renderer' = [w |-> viewport.w, h |-> viewport.h, disposed |-> FALSE]
     /\ parentOf' = [dom EXCEPT !["canvas"] = cont]
     \* this.animate()
     /\ frameSeq' = frameSeq + 1
     /\ pendingFrames' = requestAnimationFrame(pendingFrames, frameSeq + 1)
     /\ animationFrame' = frameSeq + 1
     /\ heap' = h1
     /\ uniforms' = AnimatedUniforms(u0, h1, 1, 3)
     /\ draws' = draws + 1
     /\ drawn' = AnimatedUniforms(u0, h1, 1, 3)
     \* this.addEventListeners()
     /\ listeners' = listeners \cup RegisteredListeners(cont)
     /\ UNCHANGED << viewport, textContent, warnings, released, movePrev, resizes,
                     envVars >>

\* new PixelatedTextEffect({ container }) called directly on a page element.
NewEffect(cont) ==
  /\ ~constructed
  /\ Construct(cont, DefaultText, parentOf)
  /\ lastOp' = Op("construct", NoPoint)
  /\ UNCHANGED << elPosition, returned >>

\* A helper that returns null on a missing element without logging.
ApplyToMissingSilently(selector, options) ==
  /\ querySelector(selector) = Null
  /\ returned' = Null
  /\ lastOp' = NoOp("apply")
  /\ UNCHANGED << viewport, parentOf, elPosition, textContent, listeners,
                  pendingFrames, frameSeq, warnings, constructed, container, text,
                  pointerVars, renderVars, envVars, animationFrame, movePrev,
                  resizes >>

\* applyPixelatedTextTo(selector, options) when the selector matches nothing.
ApplyToMissing(selector, options) ==
  /\ querySelector(selector) = Null
  /\ warnings' = warnings + 1
  /\ returned' = Null
  /\ lastOp' = NoOp("apply")
  /\ UNCHANGED << viewport, parentOf, elPosition, textContent, listeners,
                  pendingFrames, frameSeq, constructed, container, text,
                  pointerVars, renderVars, envVars, animationFrame, movePrev,
                  resizes >>

\* applyPixelatedTextTo(selector, options) when the selector matches el.
ApplyToFound(selector, options) ==
  /\ querySelector(selector) # Null
  /\ ~constructed
  /\ LET el == querySelector(selector)
         cfg == MergedConfig("overlay", Trim(textContent), options)
     IN /\ elPosition' = IF elPosition = "static" THEN "relative" ELSE elPosition
        /\ Construct(cfg.container, cfg.text, [parentOf EXCEPT !["overlay"] = el])
  /\ returned' = "effect"
  /\ lastOp' = Op("apply", NoPoint)


----------------------------------------------------------------------------
\* The pointer handlers, as functions of the pointer state
\* [easeFactor, heap, mouse, target, prev] (the last three are object ids).

PointerState ==
  [ easeFactor |-> easeFactor, heap |-> heap,
    mouse |-> mouseRef, target |-> targetRef, prev |-> prevRef ]

\* Install a pointer state, renumbering its objects.
SetPointer(s) ==
  /\ easeFactor' = s.easeFactor
  /\ heap' = CanonHeap(s.heap, s.mouse, s.target, s.prev)
  /\ mouseRef' = 1
  /\ targetRef' = CanonTarget(s.mouse, s.target)
  /\ prevRef' = CanonPrev(s.mouse, s.target, s.prev)

\* A move that stores the target object itself as prevPosition, not a copy.
handleMouseMoveAliasing(s, event, rect) ==
  LET h2 == [s.heap EXCEPT ![s.target] = Point(NormX(event, rect), NormY(event, rect))]
  IN [ s EXCEPT !.easeFactor = EaseMove, !.prev = s.target, !.heap = h2 ]

\* A move that overwrites the target and leaves prevPosition alone.
handleMouseMoveKeepingPrevious(s, event, rect) ==
  LET h2 == [s.heap EXCEPT ![s.target] = Point(NormX(event, rect), NormY(event, rect))]
  IN [ s EXCEPT !.easeFactor = EaseMove, !.heap = h2 ]

\* A move that records the eased current position as prevPosition.
handleMouseMoveFromCurrent(s, event, rect) ==
  LET n == FreshId(s.mouse, s.target, s.prev)
      h1 == [s.heap EXCEPT ![n] = s.heap[s.mouse]]
      h2 == [h1 EXCEPT ![s.target] = Point(NormX(event, rect), NormY(event, rect))]
  IN [ s EXCEPT !.easeFactor = EaseMove, !.prev = n, !.heap = h2 ]

\* handleMouseMove: prevPosition becomes a fresh copy of the target object,
\* then the target object's x and y are overwritten in place.
handleMouseMove(s, event, rect) ==
  LET n == FreshId(s.mouse, s.target, s.prev)
      h1 == [s.heap EXCEPT ![n] = s.heap[s.target]]
      h2 == [h1 EXCEPT ![s.target] = Point(NormX(event, rect), NormY(event, rect))]
  IN [ s EXCEPT !.easeFactor = EaseMove, !.prev = n, !.heap = h2 ]

\* An enter that writes the target only, so that current eases toward it.
handleMouseEnterTargetOnly(s, event, rect) ==
  LET h1 == [s.heap EXCEPT ![s.target] = Point(NormX(event, rect), NormY(event, rect))]
  IN [ s EXCEPT !.easeFactor = EaseEnter, !.heap = h1 ]

\* handleMouseEnter: x and y of both the mouse object and the target object
\* are overwritten in place with the event's normalized position.
handleMouseEnter(s, event, rect) ==
  LET x == NormX(event, rect)
      y == NormY(event, rect)
      h1 == [s.heap EXCEPT ![s.target] = Point(x, y)]
      h2 == [h1 EXCEPT ![s.mouse] = Point(x, y)]
  IN [ s EXCEPT !.easeFactor = EaseEnter, !.heap = h2 ]

\* A leave that snaps the target to the centre instead of prevPosition.
handleMouseLeaveToCentre(s) ==
  LET n == FreshId(s.mouse, s.target, s.prev)
      h1 == [s.heap EXCEPT ![n] = Point(Half, Half)]
  IN [ s EXCEPT !.easeFactor = EaseLeave, !.target = n, !.heap = h1 ]

\* handleMouseLeave: targetMousePosition becomes a fresh copy of the
\* prevPosition object.
handleMouseLeave(s) ==
  LET n == FreshId(s.mouse, s.target, s.prev)
      h1 == [s.heap EXCEPT ![n] = s.heap[s.prev]]
  IN [ s EXCEPT !.easeFactor = EaseLeave, !.target = n, !.heap = h1 ]

\* The host delivers an event of this type at this target to a listener.
Listening(node, type) ==
  \E l \in listeners : l.target = node /\ l.type = type

\* Pointer events are dispatched at the effect's container.
EventTargets == { n \in Nodes : constructed /\ n = container }

\* Pointer handlers that render a frame themselves.
PointerFrameDrawing ==
  /\ draws' = draws + 1
  /\ UNCHANGED << viewport, parentOf, elPosition, textContent, listeners,
                  pendingFrames, frameSeq, warnings, constructed, container, text,
                  camera, uniforms, renderer, textures, released, drawn, envVars,
                  animationFrame, returned, resizes >>

\* What the pointer handlers never write.
PointerFrame ==
  UNCHANGED << viewport, parentOf, elPosition, textContent, listeners,
               pendingFrames, frameSeq, warnings, constructed, container, text,
               renderVars, envVars, animationFrame, returned, resizes >>

\* A mousemove event at a node.
MouseMove(node, event, rect) ==
  /\ node \in EventTargets
  /\ IF Listening(node, "mousemove")
       THEN /\ SetPointer(handleMouseMove(PointerState, event, rect))
            /\ movePrev' = [set |-> TRUE, at |-> Target]
            /\ lastOp' = Op("mousemove", Normalized(event, rect))
       ELSE /\ UNCHANGED << pointerVars, movePrev >>
            /\ lastOp' = NoOp("mousemove")
  /\ PointerFrame

\* A mouseenter event at a node.
MouseEnter(node, event, rect) ==
  /\ node \in EventTargets
  /\ IF Listening(node, "mouseenter")
       THEN /\ SetPointer(handleMouseEnter(PointerState, event, rect))
            /\ lastOp' = Op("mouseenter", Normalized(event, rect))
       ELSE /\ UNCHANGED pointerVars
            /\ lastOp' = NoOp("mouseenter")
  /\ UNCHANGED movePrev
  /\ PointerFrame

\* A mouseleave event at a node.  The event reports where the pointer is,
\* outside the box; handleMouseLeave does not read it.
MouseLeave(node, event, rect) ==
  /\ node \in EventTargets
  /\ IF Listening(node, "mouseleave")
       THEN /\ SetPointer(handleMouseLeave(PointerState))
            /\ lastOp' = Op("mouseleave", Normalized(event, rect))
       ELSE /\ UNCHANGED pointerVars
            /\ lastOp' = NoOp("mouseleave")
  /\ UNCHANGED movePrev
  /\ PointerFrame

----------------------------------------------------------------------------
\* The frame loop.

\* The host runs the frame callback with handle h: animate() (script.js:328-346).
Tick(h) ==
  /\ h \in pendingFrames
  /\ LET h1 == AnimatedHeap(heap, mouseRef, targetRef, easeFactor)
     IN /\ frameSeq' = frameSeq + 1
        /\ pendingFrames' = requestAnimationFrame(pendingFrames \ {h}, frameSeq + 1)
        /\ animationFrame' = frameSeq + 1
        /\ heap' = h1
        /\ uniforms' = AnimatedUniforms(uniforms, h1, mouseRef, prevRef)
        /\ draws' = draws + 1
        /\ drawn' = AnimatedUniforms(uniforms, h1, mouseRef, prevRef)
  /\ lastOp' = Op("tick", NoPoint)
  /\ UNCHANGED << viewport, parentOf, elPosition, textContent, listeners, warnings,
                  constructed, container, text, easeFactor, mouseRef, targetRef,
                  prevRef, camera, renderer, textures, released, returned,
                  movePrev, resizes, envVars >>

----------------------------------------------------------------------------
\* Resize.

\* onWindowResize (script.js:308-318) on the new window size.
onWindowResize(vp) ==
  /\ camera' = updateProjectionMatrix([camera EXCEPT !.bounds = CameraBounds(vp)])
  /\ renderer' = [renderer EXCEPT !.w = vp.w, !.h = vp.h]
  /\ textures' = Append(textures, createTextTexture(vp, text))
  /\ uniforms' = [uniforms EXCEPT !.u_texture = Len(textures) + 1]

\* The window takes the size vp and the host dispatches a resize event.
Resize(vp) ==
  /\ resizes' = resizes + 1
  /\ viewport' = vp
  /\ IF Listening("window", "resize")
       THEN /\ onWindowResize(vp)
            /\ lastOp' = Op("resize", NoPoint)
       ELSE /\ UNCHANGED << camera, renderer, textures, uniforms >>
            /\ lastOp' = NoOp("resize")
  /\ UNCHANGED << parentOf, elPosition, textContent, listeners, pendingFrames,
                  frameSeq, warnings, constructed, container, text, pointerVars,
                  animationFrame, released, draws, drawn, returned, movePrev,
                  envVars >>

----------------------------------------------------------------------------
\* Teardown.

\* destroy() (script.js:355-363).  removeChild throws when the canvas is not
\* a child of the container (a second call): the statements before it have
\* run, renderer.dispose() has not.
Destroy ==
  /\ constructed
  /\ pendingFrames' = cancelAnimationFrame(pendingFrames, animationFrame)
  /\ listeners' = listeners \ RemovedListeners(container)
  /\ IF parentOf["canvas"] = container
       THEN /\ parentOf' = [parentOf EXCEPT !["canvas"] = "detached"]
            /\ renderer' = [renderer EXCEPT !.disposed = TRUE]
            /\ lastOp' = Op("destroy", NoPoint)
       ELSE /\ UNCHANGED << parentOf, renderer >>
            /\ lastOp' = NoOp("destroy")
  /\ UNCHANGED << viewport, elPosition, textContent, frameSeq, warnings,
                  constructed, container, text, pointerVars, camera, uniforms,
                  animationFrame, textures, released, draws, drawn, returned,
                  movePrev, resizes, envVars >>

----------------------------------------------------------------------------
\* The fragment shader.  Texture coordinates are counted in units of
\* 1/UvDen, distances in units of 1/DistDen, and strengths are exact
\* fractions.

GridSize == 40
UvDen == 4 * GridSize
DistDen == 20
MaxDist == 12

\* Texture coordinates of the fragments shaded, per axis, in [0, 1).
UvSteps == {0, 1, 3, 82, UvDen - 1}
Distances == 0 .. MaxDist

RSub(f, g) == [num |-> f.num * g.den - g.num * f.den, den |-> f.den * g.den]

RDiv(f, g) ==
  IF g.num < 0 THEN [num |-> 0 - f.num * g.den, den |-> 0 - f.den * g.num]
               ELSE [num |-> f.num * g.den, den |-> f.den * g.num]

\* clamp(t, 0.0, 1.0)
clamp(t) ==
  IF t.num < 0 THEN [num |-> 0, den |-> t.den]
  ELSE IF t.num > t.den THEN [num |-> t.den, den |-> t.den]
  ELSE t

\* A smoothstep without the clamp.
smoothstepUnclamped(edge0, edge1, x) ==
  LET t == RDiv(RSub(x, edge0), RSub(edge1, edge0))
  IN  [num |-> t.num * t.num * (3 * t.den - 2 * t.num),
       den |-> t.den * t.den * t.den]

\* GLSL smoothstep(edge0, edge1, x): t * t * (3 - 2 t) for
\* t = clamp((x - edge0) / (edge1 - edge0), 0, 1).
smoothstep(edge0, edge1, x) ==
  LET t == clamp(RDiv(RSub(x, edge0), RSub(edge1, edge0)))
  IN  [num |-> t.num * t.num * (3 * t.den - 2 * t.num),
       den |-> t.den * t.den * t.den]

Edge0 == Fraction(3, 10)
Edge1 == Fraction(0, 1)

\* strength = smoothstep(0.3, 0.0, dist)
strength(d) == smoothstep(Edge0, Edge1, Fraction(d, DistDen))

\* gridUV = floor(vUv * 40.0) / 40.0, per axis.
gridCoord(c) == ((c * GridSize) \div UvDen) * (UvDen \div GridSize)

gridUV(uv) == Point(gridCoord(uv.x), gridCoord(uv.y))

\* centerOfPixel = gridUV + vec2(1.0 / 40.0, 1.0 / 40.0)
centerOfPixel(uv) ==
  Point(gridUV(uv).x + UvDen \div GridSize, gridUV(uv).y + UvDen \div GridSize)

\* main() of the fragment shader for the fragment at uv whose block lies at
\* distance d from the mouse uniform.
ShadeFragment(uv, d) ==
  /\ frag' = [ shaded |-> TRUE, uv |-> uv, d |-> d, gridUV |-> gridUV(uv),
               center |-> centerOfPixel(uv), strength |-> strength(d) ]
  /\ UNCHANGED << viewport, parentOf, elPosition, textContent, listeners,
                  pendingFrames, frameSeq, warnings, constructed, container, text,
                  pointerVars, renderVars, fontsReady, animationFrame, returned,
                  lastOp, movePrev, resizes >>

----------------------------------------------------------------------------
\* Fonts.

\* document.fonts.ready resolves: the custom font is available from now on.
\* Nothing in script.js waits for it or reacts to it.
FontsLoaded ==
  /\ ~fontsReady
  /\ fontsReady' = TRUE
  /\ lastOp' = NoOp("fonts")
  /\ UNCHANGED << viewport, parentOf, elPosition, textContent, listeners,
                  pendingFrames, frameSeq, warnings, constructed, container, text,
                  pointerVars, renderVars, frag, animationFrame, returned,
                  movePrev, resizes >>

----------------------------------------------------------------------------
\* Spec: the life of an effect made by applyPixelatedTextTo, with and
\* without a container in the options: pointer events, frame ticks, resizes
\* and teardown.

LifeTenths == { <<4, 6>> }

LifeOptions == { o \in OptionSets : ~o.hasText }

LifeInit ==
  /\ Init
  /\ fontsReady
  /\ elPosition = "static"
  /\ textContent = <<" ", "H", "I", " ">>

Next ==
  \/ \E sel \in Selectors, o \in LifeOptions : ApplyToFound(sel, o)
  \/ \E n \in Nodes, r \in Rects : \E e \in EventsIn(r, LifeTenths) : MouseMove(n, e, r)
  \/ \E n \in Nodes, r \in Rects : \E e \in EventsIn(r, LifeTenths) : MouseEnter(n, e, r)
  \/ \E n \in Nodes, r \in Rects : \E e \in EventsIn(r, OutsideTenths) : MouseLeave(n, e, r)
  \/ \E h \in pendingFrames : draws <= MaxTicks /\ Tick(h)
  \/ \E vp \in Viewports : resizes < MaxResizes /\ Resize(vp)
  \/ Destroy

Spec == LifeInit /\ [][Next]_vars

----------------------------------------------------------------------------
\* PointerSpec: the pointer state of an effect constructed directly on a
\* page element: pointer events at every position of InsideTenths and
\* frame ticks.

PointerInit ==
  /\ Init
  /\ fontsReady
  /\ viewport = [w |-> 800, h |-> 600]
  /\ elPosition = "static"
  /\ textContent = <<"H", "I">>

PointerNext ==
  \/ \E cont \in {"host"} : NewEffect(cont)
  \/ \E n \in Nodes, r \in Rects : \E e \in EventsIn(r, InsideTenths) : MouseMove(n, e, r)
  \/ \E n \in Nodes, r \in Rects : \E e \in EventsIn(r, InsideTenths) : MouseEnter(n, e, r)
  \/ \E n \in Nodes, r \in Rects : \E e \in EventsIn(r, OutsideTenths) : MouseLeave(n, e, r)
  \/ \E h \in pendingFrames : draws <= PointerTicks /\ Tick(h)

PointerSpec == PointerInit /\ [][PointerNext]_vars

----------------------------------------------------------------------------
\* HelperSpec: applyPixelatedTextTo on every page, selector and options
\* object, before or after the custom font has loaded, followed by frame
\* ticks, resizes and teardown.

HelperNext ==
  \/ \E sel \in Selectors, o \in OptionSets :
       warnings < MaxWarnings /\ ApplyToMissing(sel, o)
  \/ \E sel \in Selectors, o \in OptionSets : ApplyToFound(sel, o)
  \/ \E h \in pendingFrames : draws <= MaxTicks /\ Tick(h)
  \/ \E vp \in Viewports : resizes < MaxResizes /\ Resize(vp)
  \/ Destroy
  \/ FontsLoaded

HelperSpec == Init /\ [][HelperNext]_vars

----------------------------------------------------------------------------
\* ShaderSpec: the fragment shader on its own, applied to fragments at a
\* bounded set of texture coordinates and distances from the pointer.

ShaderNext ==
  \E ux \in UvSteps, uy \in UvSteps, d \in Distances : ShadeFragment(Point(ux, uy), d)

ShaderSpec == LifeInit /\ [][ShaderNext]_vars

----------------------------------------------------------------------------
\* Properties.

\* 0.01 and 0.035, the smoothing factors named by the claims.
Slow == [num |-> 10, den |-> 1000]
Fast == [num |-> 35, den |-> 1000]

\* The fixed-point value of tenths / 10 on both axes.
Tenths(tx, ty) == Point((tx * Scale) \div 10, (ty * Scale) \div 10)

InUnit(pt) == pt.x >= 0 /\ pt.x <= Scale /\ pt.y >= 0 /\ pt.y <= Scale

\* The effect exists and destroy has not released it.
Active == constructed /\ ~renderer.disposed

\* C1: immediately after a handled mouseleave the smoothing factor is 0.01
\* and, once a move has happened, the target equals the value the latest
\* move gave to previous (the target in force just before that move).
C1_LeaveRestoresPrevious ==
  (lastOp.op = "mouseleave" /\ lastOp.handled) =>
    /\ easeFactor = Slow
    /\ movePrev.set => Target = movePrev.at

\* C1 witness: move to (0.2,0.3), move elsewhere, leave: the target is back
\* at (0.2,0.3) and differs from the current position.
C1_Witness ==
  /\ lastOp.op = "mouseleave" /\ lastOp.handled
  /\ movePrev.set
  /\ movePrev.at = Tenths(2, 3)
  /\ Target = Tenths(2, 3)
  /\ Current # Target

\* C2: immediately after a handled mouseenter at e, current and target both
\* equal e and the smoothing factor is 0.01; a frame tick that follows
\* directly leaves current equal to e.
C2_EnterSnaps ==
  /\ [](lastOp.op = "mouseenter" /\ lastOp.handled =>
          Current = lastOp.at /\ Target = lastOp.at /\ easeFactor = Slow)
  /\ [][(lastOp.op = "mouseenter" /\ lastOp.handled /\ lastOp'.op = "tick") =>
          Current' = lastOp.at]_vars

\* C2 witness: an enter has just moved current away from the position last
\* drawn, and a frame callback is still to run.
C2_Witness ==
  /\ lastOp.op = "mouseenter" /\ lastOp.handled
  /\ Current = lastOp.at
  /\ uniforms.u_mouse # Point(Current.x, Scale - Current.y)
  /\ pendingFrames # {}
  /\ draws <= PointerTicks

\* C3: a handled mousemove at p sets the smoothing factor to 0.035, gives
\* previous the value target had before the event, sets target to p, leaves
\* current unchanged, and previous and target are different objects after it.
C3_MoveRecordsPrevious ==
  [][(lastOp'.op = "mousemove" /\ lastOp'.handled) =>
       /\ easeFactor' = Fast
       /\ Previous' = Target
       /\ Target' = lastOp'.at
       /\ Current' = Current
       /\ prevRef' # targetRef'
       /\ mouseRef' # targetRef']_vars

\* C3 witness: after a move, previous, target and current are three
\* different positions.
C3_Witness ==
  /\ lastOp.op = "mousemove" /\ lastOp.handled
  /\ Previous # Target
  /\ Current # Target
  /\ Current # Previous
  /\ easeFactor = Fast

\* C4: once destroy has run, the canvas is not a child of the container, no
\* frame callback is pending and no further draw is issued; the destroy
\* step itself leaves the count of draws issued unchanged.
C4_DestroyStopsLoop ==
  /\ [](renderer.disposed =>
          parentOf["canvas"] # container /\ pendingFrames = {})
  /\ [][renderer.disposed => draws' = draws]_vars
  /\ [][lastOp'.op = "destroy" => draws' = draws]_vars

\* C4 witness: an effect that drew on frame ticks was destroyed, and the
\* host has dispatched a resize since.
C4_Witness ==
  /\ renderer.disposed
  /\ draws > 1
  /\ resizes > 0
  /\ lastOp.op = "resize"

\* C5: while the effect is active exactly the four listeners of
\* addEventListeners are registered; after destroy none is, and no pointer
\* event or resize changes the pointer state, the smoothing factor, the
\* camera, the texture or the renderer.
C5_DestroyDetachesListeners ==
  /\ [](Active => listeners = RegisteredListeners(container))
  /\ [](renderer.disposed => listeners = {})
  /\ [][renderer.disposed =>
          UNCHANGED << pointerVars, camera, uniforms, textures, renderer >>]_vars

\* C5 witness: after destroy, following a resize, a pointer event was
\* dispatched at the container and found no listener.
C5_Witness ==
  /\ renderer.disposed
  /\ resizes > 0
  /\ lastOp = NoOp("mouseenter")

\* C6: a resize event on an active effect makes exactly one texture and one
\* projection update, and the texture in the uniform afterwards is twice
\* the new viewport; the texture of an active effect is always twice the
\* viewport.
C6_ResizeRegenerates ==
  /\ [][(resizes' = resizes + 1 /\ Active) =>
          /\ Len(textures') = Len(textures) + 1
          /\ uniforms'.u_texture = Len(textures')
          /\ camera'.calls = camera.calls + 1
          /\ camera'.projection = CameraBounds(viewport')
          /\ textures'[uniforms'.u_texture].width = 2 * viewport'.w
          /\ textures'[uniforms'.u_texture].height = 2 * viewport'.h]_vars
  /\ [](Active =>
          /\ textures[uniforms.u_texture].width = 2 * viewport.w
          /\ textures[uniforms.u_texture].height = 2 * viewport.h)

\* C6 witness: a resize to 800 x 600 from another size has installed a
\* 1600 x 1200 texture.
C6_Witness ==
  /\ Active
  /\ lastOp.op = "resize" /\ lastOp.handled
  /\ viewport = [w |-> 800, h |-> 600]
  /\ textures[uniforms.u_texture].width = 1600
  /\ textures[uniforms.u_texture].height = 1200
  /\ textures[1].width = 1000

\* C7: with every enter and move inside the bounding box, every coordinate
\* of target, current and previous is in [0, 1].
C7_CoordinatesInUnitSquare ==
  constructed => InUnit(Target) /\ InUnit(Current) /\ InUnit(Previous)

\* C7 witness: the pointer went to the corner (0, 1) and a frame tick eased
\* current toward it.
C7_Witness ==
  /\ constructed
  /\ Target = Tenths(0, 10)
  /\ lastOp.op = "tick"
  /\ Current # Target
  /\ Current # Point(Half, Half)
  /\ Previous # Point(Half, Half)

\* C8: a call whose selector matches nothing logs one warning, returns null
\* and changes nothing else: no effect, no overlay, no positioning change,
\* no listener, no frame callback.
C8_MissingElement ==
  [][(lastOp'.op = "apply" /\ ~lastOp'.handled) =>
       /\ warnings' = warnings + 1
       /\ returned' = Null
       /\ UNCHANGED << constructed, parentOf, elPosition, listeners,
                       pendingFrames, frameSeq, container, text, pointerVars,
                       renderVars, animationFrame >>]_vars

\* C8 witness: the helper found no element on a page without an effect.
C8_Witness ==
  /\ lastOp = NoOp("apply")
  /\ returned = Null
  /\ warnings = 1
  /\ ~constructed
  /\ parentOf["overlay"] = "absent"
  /\ listeners = {}
  /\ pendingFrames = {}

\* C9: the effect the helper returns has the new overlay as its container,
\* the overlay is a child of the target element, and the element is not
\* left statically positioned.
C9_OverlayIsContainer ==
  returned = "effect" =>
    /\ container = "overlay"
    /\ parentOf["overlay"] = "el"
    /\ parentOf["canvas"] \in {"overlay", "detached"}
    /\ elPosition # "static"

\* C10: the only texture not released is the one the texture uniform
\* refers to, so at most one texture is live.
C10_OneLiveTexture ==
  /\ Cardinality(LiveTextures) <= 1
  /\ constructed => LiveTextures = {uniforms.u_texture}

\* C11: constructing the effect while the custom font has not loaded
\* neither generates the first text texture nor issues the first draw.
C11_WaitsForFonts ==
  [][(~fontsReady /\ Len(textures) = 0)
       => (Len(textures') = 0 /\ draws' = 0)]_vars

\* C12: the displacement strength is 1 at distance 0, is 0 at every distance
\* of 0.3 or more, lies in [0, 1], and never grows with the distance.
C12_StrengthFallsOff ==
  [][frag'.shaded =>
       /\ frag'.strength.den > 0
       /\ frag'.strength.num >= 0
       /\ frag'.strength.num <= frag'.strength.den
       /\ (frag'.d = 0 => frag'.strength.num = frag'.strength.den)
       /\ (10 * frag'.d >= 3 * DistDen => frag'.strength.num = 0)
       /\ ((frag.shaded /\ frag'.d >= frag.d) =>
             /\ frag'.strength.den = frag.strength.den
             /\ frag'.strength.num <= frag.strength.num)]_vars

\* C12 witness: a fragment between the pointer and the 0.3 radius is
\* displaced with a strength strictly between 0 and 1.
C12_Witness ==
  /\ frag.shaded
  /\ frag.d > 0
  /\ 10 * frag.d < 3 * DistDen
  /\ frag.strength.num > 0
  /\ frag.strength.num < frag.strength.den

\* Helpers for the easing claims: distance between two coordinates, a value
\* lying between two others, and an easing step too small to change the
\* coordinate it is added to.
Dist(a, b) == IF a >= b THEN a - b ELSE b - a

Between(c, n, t) == (c <= n /\ n <= t) \/ (t <= n /\ n <= c)

StepRoundsAway(c, t, ease) == 2 * Dist(c, t) * ease.num < ease.den

\* A step of the model is a frame tick.
IsTick == lastOp'.op = "tick" /\ draws' = draws + 1

C14_EaseWriteDraw ==
  [][/\ (lastOp'.op = "tick" =>
           /\ draws' = draws + 1
           /\ Current'.x = Eased(Current.x, Target.x, easeFactor)
           /\ Current'.y = Eased(Current.y, Target.y, easeFactor)
           /\ Previous' = Previous)
     /\ (draws' # draws =>
           /\ draws' = draws + 1
           /\ uniforms'.u_mouse = Point(Current'.x, Scale - Current'.y)
           /\ uniforms'.u_prevMouse = Point(Previous'.x, Scale - Previous'.y)
           /\ drawn' = uniforms')]_vars

\* C14 witness: a tick has drawn with a mouse uniform on its way from the
\* centre to the target and a previous-mouse uniform away from the centre.
C14_Witness ==
  /\ lastOp.op = "tick"
  /\ drawn = uniforms
  /\ drawn.u_prevMouse = Point(Tenths(2, 3).x, Scale - Tenths(2, 3).y)
  /\ Target = Tenths(0, 10)
  /\ drawn.u_mouse.x < Half
  /\ drawn.u_mouse.y < Half

\* A step of the model is a pointer event that a handler received.
PointerKinds == {"mousemove", "mouseenter", "mouseleave"}

\* C15 as stated: a move leaves in previous the position reported by the
\* pointer event delivered just before it, whichever event that was.
C15_PreviousIsPrecedingEvent ==
  [][(/\ lastOp'.op = "mousemove" /\ lastOp'.handled
      /\ lastOp.op \in PointerKinds /\ lastOp.handled)
       => Previous' = lastOp.at]_vars

\* C15 amended: a move leaves in previous the target in force just before
\* it: the position reported by the preceding pointer event when that was an
\* enter or a move, the previous of the move before when it was a leave, the
\* centre when there was none; enter, leave and frame ticks leave previous
\* as the latest move set it.
C15_PreviousIsTargetBeforeMove ==
  [][/\ (lastOp'.op = "mousemove" /\ lastOp'.handled) =>
          /\ Previous' = Target
          /\ movePrev' = [set |-> TRUE, at |-> Target]
          /\ ((lastOp.op \in {"mousemove", "mouseenter"} /\ lastOp.handled)
                => Previous' = lastOp.at)
          /\ ((lastOp.op = "mouseleave" /\ lastOp.handled)
                => Previous' = Previous)
          /\ (~movePrev.set => Previous = Point(Half, Half))
     /\ (lastOp'.op \in {"mouseenter", "mouseleave", "tick"} =>
          /\ Previous' = Previous
          /\ movePrev' = movePrev)
     /\ (movePrev'.set => Previous' = movePrev'.at)]_vars

\* C15 witness: an enter at (0.2, 0.3) and a move to (0, 1) were followed by
\* a tick and a leave; previous still holds the enter's position.
C15_Witness ==
  /\ movePrev.set
  /\ lastOp.op = "mouseleave" /\ lastOp.handled
  /\ draws > 1
  /\ Previous = Tenths(2, 3)
  /\ Target = Previous
  /\ Current # Tenths(0, 10)
  /\ Current.x < Tenths(2, 3).x

\* C16 as stated: the previous-mouse uniform a tick writes is the mouse
\* uniform the preceding tick wrote.
C16_PrevUniformIsLastFrame ==
  [][(lastOp'.op = "tick" /\ draws >= 2)
       => uniforms'.u_prevMouse = uniforms.u_mouse]_vars

\* C16 amended: the previous-mouse uniform a tick writes is
\* (previous.x, 1 - previous.y) for the previous the latest move recorded
\* (the centre before any move), whatever the preceding tick wrote as mouse
\* uniform; between two ticks without a move it does not change.
C16_PrevUniformIsPrevious ==
  [][lastOp'.op = "tick" =>
       /\ uniforms'.u_prevMouse = Point(Previous.x, Scale - Previous.y)
       /\ (movePrev.set =>
             uniforms'.u_prevMouse = Point(movePrev.at.x, Scale - movePrev.at.y))
       /\ (~movePrev.set =>
             uniforms'.u_prevMouse = Point(Half, Scale - Half))
       /\ (lastOp.op = "tick" => uniforms'.u_prevMouse = uniforms.u_prevMouse)]_vars

\* C16 witness: two ticks in a row after a move from (0.2, 0.3) to (0, 1):
\* the previous-mouse uniform is the flipped (0.2, 0.3) on both, while the
\* mouse uniform has moved on.
C16_Witness ==
  /\ lastOp.op = "tick"
  /\ draws = 3
  /\ movePrev.set /\ movePrev.at = Tenths(2, 3)
  /\ Target = Tenths(0, 10)
  /\ uniforms.u_prevMouse = Point(Tenths(2, 3).x, Scale - Tenths(2, 3).y)
  /\ uniforms.u_mouse # uniforms.u_prevMouse
  /\ uniforms.u_mouse.x < Tenths(2, 3).x

\* A step of the model is a handled move that directly follows a handled
\* move, with no frame tick between the two.
MoveAfterMove ==
  /\ lastOp'.op = "mousemove" /\ lastOp'.handled
  /\ lastOp.op = "mousemove" /\ lastOp.handled

\* C17 as stated: moves between two ticks coalesce, so the state the next
\* tick reads after the moves A, C is the state it reads after C alone:
\* a move that follows a move changes the target and nothing else.
C17_MovesCoalesce ==
  [][MoveAfterMove =>
       /\ Target' = lastOp'.at
       /\ Current' = Current
       /\ easeFactor' = easeFactor
       /\ uniforms' = uniforms
       /\ Previous' = Previous]_vars

\* C17 amended: of the moves between two ticks the last one alone decides
\* target, current, the smoothing factor and so the mouse uniform of the
\* next tick, but previous (and the previous-mouse uniform of the next
\* tick) is the position of the move before the last one.
C17_LastMoveDecidesTarget ==
  [][MoveAfterMove =>
       /\ Target' = lastOp'.at
       /\ Current' = Current
       /\ easeFactor' = easeFactor
       /\ uniforms' = uniforms
       /\ Previous' = lastOp.at]_vars

\* C17 witness: moves to (0.2, 0.3) and then to (0, 1) before the first
\* tick: the target is (0, 1), current is still the centre, and previous is
\* the intermediate (0.2, 0.3).
C17_Witness ==
  /\ lastOp = Op("mousemove", Tenths(0, 10))
  /\ draws = 1
  /\ Current = Point(Half, Half)
  /\ Target = Tenths(0, 10)
  /\ Previous = Tenths(2, 3)
  /\ movePrev.at = Tenths(2, 3)

\* C18: a pointer event, handled or not, leaves the shader uniforms, the
\* textures, the camera, the renderer, the scheduled frame and the number
\* of draws as they were; the number of draws changes only where animate
\* runs, on a frame tick or in the init of a construction.
C18_HandlersOnlyMovePointer ==
  [][/\ (lastOp'.op \in PointerKinds =>
           UNCHANGED << uniforms, textures, released, camera, renderer,
                        animationFrame, pendingFrames, frameSeq, draws, drawn >>)
     /\ (draws' # draws => lastOp'.op \in {"tick", "construct", "apply"})]_vars

\* C18 witness: a handled enter has moved current after two draws; the
\* mouse uniform still holds what the last draw used.
C18_Witness ==
  /\ lastOp.op = "mouseenter" /\ lastOp.handled
  /\ draws = 2
  /\ Active
  /\ drawn = uniforms
  /\ uniforms.u_mouse # Point(Current.x, Scale - Current.y)
  /\ pendingFrames = {animationFrame}

\* The grid cell that holds a texture coordinate: its lower and upper edge.
CellWidth == UvDen \div GridSize

CellLow(c) ==
  CellWidth * (CHOOSE m \in 0 .. GridSize - 1 :
                 m * CellWidth <= c /\ c < (m + 1) * CellWidth)

CellHigh(c) == CellLow(c) + CellWidth

\* C19: the point the shader measures the distance from is the centre of
\* the grid cell holding the fragment: strictly inside the cell and as far
\* from its left edge as from its right, from its bottom as from its top.
C19_CenterOfCell ==
  frag.shaded =>
    /\ CellLow(frag.uv.x) < frag.center.x /\ frag.center.x < CellHigh(frag.uv.x)
    /\ CellLow(frag.uv.y) < frag.center.y /\ frag.center.y < CellHigh(frag.uv.y)
    /\ frag.center.x - CellLow(frag.uv.x) = CellHigh(frag.uv.x) - frag.center.x
    /\ frag.center.y - CellLow(frag.uv.y) = CellHigh(frag.uv.y) - frag.center.y

\* C20: while the effect is active exactly one frame callback is pending
\* and animationFrame is its handle; no second loop is ever scheduled.
C20_OneFramePending ==
  /\ Active => pendingFrames = {animationFrame}
  /\ Cardinality(pendingFrames) <= 1

\* C20 witness: after a frame tick the callback of the tick is gone and the
\* one it requested is pending under a newer handle.
C20_Witness ==
  /\ Active
  /\ lastOp.op = "tick"
  /\ draws = 2
  /\ animationFrame = 2
  /\ pendingFrames = {2}

====
